---- MODULE Spec2Model ----
(***************************************************************************)
(* Model of the Pico 2 firmware communication core:                        *)
(*   src/src/boot.py      boot-mode decision (in_maintenance, dupterm)      *)
(*   src/src/usbproto.py  length-prefixed JSON framing (read_n, recv_obj,   *)
(*                        send_obj)                                         *)
(*   src/src/main.py      Transport selection, dispatch, main loop          *)
(* MicroPython runs boot.py and then main.py on every power-on or reset.    *)
(* Bytes are integers 0..255; texts are their ASCII byte sequences.         *)
(***************************************************************************)
EXTENDS Integers, Sequences, FiniteSets, TLC

\* ---------------------------------------------------------------- bounds
MaxBoots      == 3  \* power-on/reset events in one behaviour of SpecBoot
MaxBootSends  == 1  \* items the peer writes in one run of SpecBoot
MaxSends      == 2  \* items the peer writes in one run of Spec
MaxFaultSends == 1  \* items the peer writes in one run of SpecFault
MaxFaults     == 1  \* transport read/write faults in one run of SpecFault
MaxPartial    == 1  \* bytes a raising dev.write may still have written
MaxCodecSends == 2  \* frames the peer writes in one run of SpecCodec
MaxCount      == 2  \* --count of tools/test_usb.py
MaxReplies    == 2  \* items the client's peer writes

\* ------------------------------------------------------ program constants
MAX_FRAME_BYTES == 65536        \* the frame limit, as tools/test_usb.py checks it
TICKS_PERIOD    == 1073741824   \* time.ticks_ms() wraps at 2^30 on MicroPython
VERSION         == "0.1.0"
NONE            == "None"      \* Python None (what dict.get returns for a missing key)
NoLen           == -1          \* recv_obj has not unpacked a header in this iteration

\* ------------------------------------------------------------ byte tables
StrBytes ==
      "type" :> <<116, 121, 112, 101>>
   @@ "data" :> <<100, 97, 116, 97>>
   @@ "ts" :> <<116, 115>>
   @@ "version" :> <<118, 101, 114, 115, 105, 111, 110>>
   @@ "uptime_ms" :> <<117, 112, 116, 105, 109, 101, 95, 109, 115>>
   @@ "heap_free" :> <<104, 101, 97, 112, 95, 102, 114, 101, 101>>
   @@ "code" :> <<99, 111, 100, 101>>
   @@ "message" :> <<109, 101, 115, 115, 97, 103, 101>>
   @@ "ping" :> <<112, 105, 110, 103>>
   @@ "get_status" :> <<103, 101, 116, 95, 115, 116, 97, 116, 117, 115>>
   @@ "echo" :> <<101, 99, 104, 111>>
   @@ "enter_maintenance" :> <<101, 110, 116, 101, 114, 95, 109, 97, 105, 110, 116, 101, 110, 97, 110, 99, 101>>
   @@ "frobnicate" :> <<102, 114, 111, 98, 110, 105, 99, 97, 116, 101>>
   @@ "pong" :> <<112, 111, 110, 103>>
   @@ "status" :> <<115, 116, 97, 116, 117, 115>>
   @@ "error" :> <<101, 114, 114, 111, 114>>
   @@ "hi" :> <<104, 105>>
   @@ "0.1.0" :> <<48, 46, 49, 46, 48>>
   @@ "UNKNOWN_CMD" :> <<85, 78, 75, 78, 79, 87, 78, 95, 67, 77, 68>>
   @@ "EXC" :> <<69, 88, 67>>
   @@ "Unknown command: " :> <<85, 110, 107, 110, 111, 119, 110, 32, 99, 111, 109, 109, 97, 110, 100, 58, 32>>
   @@ "None" :> <<78, 111, 110, 101>>
   @@ "null" :> <<110, 117, 108, 108>>
   @@ "syntax error in JSON" :> <<115, 121, 110, 116, 97, 120, 32, 101, 114, 114, 111, 114, 32, 105, 110, 32, 74, 83, 79, 78>>
   @@ "'int' object has no attribute 'get'" :> <<39, 105, 110, 116, 39, 32, 111, 98, 106, 101, 99, 116, 32, 104, 97, 115, 32, 110, 111, 32, 97, 116, 116, 114, 105, 98, 117, 116, 101, 32, 39, 103, 101, 116, 39>>
   @@ "[Errno 5] EIO" :> <<91, 69, 114, 114, 110, 111, 32, 53, 93, 32, 69, 73, 79>>

\* str(e) of the exceptions the loop can catch
MSG_JSON == "syntax error in JSON"
MSG_ATTR == "'int' object has no attribute 'get'"
MSG_EIO  == "[Errno 5] EIO"

Min(a, b) == IF a < b THEN a ELSE b

RECURSIVE Concat(_)
Concat(ss) == IF ss = <<>> THEN <<>> ELSE Head(ss) \o Concat(Tail(ss))

IsPrefix(p, s) == Len(p) <= Len(s) /\ SubSeq(s, 1, Len(p)) = p

Drop(s, k) == SubSeq(s, k + 1, Len(s))

\* ------------------------------------------------------------ struct '>I'
pack_little_endian(n) ==
   << n % 256, (n \div 256) % 256, (n \div 65536) % 256, (n \div 16777216) % 256 >>

pack(n) ==
   << (n \div 16777216) % 256, (n \div 65536) % 256, (n \div 256) % 256, n % 256 >>

unpack(h) == h[1] * 16777216 + h[2] * 65536 + h[3] * 256 + h[4]

\* ------------------------------------------------------------------ JSON
RECURSIVE Digits(_)
Digits(n) == IF n < 10 THEN << 48 + n >> ELSE Digits(n \div 10) \o << 48 + (n % 10) >>

Quoted(s) == <<34>> \o StrBytes[s] \o <<34>>

\* a str value built from pieces ("..." % x); JSON string of their concatenation
QuotedPieces(ps) == <<34>> \o Concat([i \in 1..Len(ps) |-> StrBytes[ps[i]]]) \o <<34>>

\* text of a dict given its members <<key, value text>> in order
RECURSIVE Members(_, _, _)
Members(ms, isep, ksep) ==
   IF ms = <<>> THEN <<>>
   ELSE Quoted(Head(ms)[1]) \o ksep \o Head(ms)[2]
        \o (IF Len(ms) > 1 THEN isep ELSE <<>>)
        \o Members(Tail(ms), isep, ksep)

DictText(ms, isep, ksep) == <<123>> \o Members(ms, isep, ksep) \o <<125>>

\* request values the peer's texts denote
ReqTypes == {"ping", "get_status", "echo", "enter_maintenance", "frobnicate"}
ReqDatas == {"hi"}

DictVal(t, d) == [kind |-> "dict", type |-> t, data |-> d, n |-> 0]
IntVal(k)     == [kind |-> "int", type |-> NONE, data |-> NONE, n |-> k]
ParseError    == [kind |-> "ValueError", type |-> NONE, data |-> NONE, n |-> 0]
NoReq         == [kind |-> "none", type |-> NONE, data |-> NONE, n |-> 0]

JsonValues ==
   {DictVal(t, d) : t \in ReqTypes \cup {NONE}, d \in ReqDatas \cup {NONE}}
   \cup {IntVal(1)}

\* JSON text of a value; isep/ksep are the separators the writer uses
ValueText(v, isep, ksep) ==
   IF v.kind = "int" THEN Digits(v.n)
   ELSE DictText(
          (IF v.type = NONE THEN <<>> ELSE << <<"type", Quoted(v.type)>> >>)
          \o (IF v.data = NONE THEN <<>> ELSE << <<"data", Quoted(v.data)>> >>),
          isep, ksep)

CompactText(v) == ValueText(v, <<44>>, <<58>>)
SpacedText(v)  == ValueText(v, <<44, 32>>, <<58, 32>>)

\* json.loads: the value whose text this is, else ValueError
json_loads(b) ==
   IF \E v \in JsonValues : b = CompactText(v) \/ b = SpacedText(v)
   THEN CHOOSE v \in JsonValues : b = CompactText(v) \/ b = SpacedText(v)
   ELSE ParseError

\* responses: one record shape, the keys written depend on type
Resp(t, ts, heap, d, c, m) ==
   [type |-> t, ts |-> ts, heap_free |-> heap, data |-> d, code |-> c, message |-> m]

PongResp(ts)         == Resp("pong", ts, 0, NONE, NONE, <<>>)
StatusResp(ts, heap) == Resp("status", ts, heap, NONE, NONE, <<>>)
EchoResp(d)          == Resp("echo", 0, 0, d, NONE, <<>>)
ErrorResp(c, m)      == Resp("error", 0, 0, NONE, c, m)
NoResp               == Resp(NONE, 0, 0, NONE, NONE, <<>>)

\* json.dumps(obj).encode('utf-8') for the response dicts
json_dumps(r) ==
   DictText(
     CASE r.type = "pong" ->
            << <<"type", Quoted("pong")>>, <<"ts", Digits(r.ts)>>,
               <<"version", Quoted(VERSION)>> >>
       [] r.type = "status" ->
            << <<"type", Quoted("status")>>, <<"uptime_ms", Digits(r.ts)>>,
               <<"heap_free", Digits(r.heap_free)>>, <<"version", Quoted(VERSION)>> >>
       [] r.type = "echo" ->
            << <<"type", Quoted("echo")>>,
               <<"data", IF r.data = NONE THEN StrBytes["null"] ELSE Quoted(r.data)>> >>
       [] OTHER ->
            << <<"type", Quoted("error")>>, <<"code", Quoted(r.code)>>,
               <<"message", QuotedPieces(r.message)>> >>,
     <<44, 32>>, <<58, 32>>)

\* ------------------------------------------------------------------ state
VARIABLES
   flag,           \* the marker MAINT_FLAG exists in storage (survives resets)
   pin,            \* level of GP2 during this boot (1 = high through the pull-up)
   pc,             \* "boot" | "main" | "hdr" | "payload" | "send_hdr" | "send_payload"
   decision,       \* "none" | "Maintenance" | "Production": in_maintenance() of this boot
   duptermCalled,  \* os.dupterm(None, 0) was called in this boot
   probe,          \* the exceptions raised while boot.py ran in this boot
   sawFlag,        \* in_maintenance() found the marker in os.listdir() in this boot
   ncalls,         \* evaluations of in_maintenance() in this boot
   honored,        \* boots decided Maintenance by the marker since it was last created
   sinceEnter,     \* 0, or 1 + boots since an enter_maintenance request was dispatched
   boots,          \* power-on/reset events so far
   usb,            \* what usb_cdc offered when Transport() was constructed
   dev,            \* the channel Transport() bound, "none" before
   rx,             \* bytes the peer wrote that the device has not read
   sent,           \* the items the peer wrote in this run
   buf,            \* read_n's accumulator
   length,         \* recv_obj's unpacked header, NoLen before
   consumed,       \* bytes recv_obj took from the channel in this iteration
   req,            \* the value json.loads returned in this iteration
   resp,           \* the dict being written by write_obj
   handler,        \* control is in main's except clause
   tx,             \* every byte the device wrote in this run
   ticks,          \* time.ticks_ms()
   faults,         \* transport faults raised in this run
   cpc,            \* tools/test_usb.py: where the client is, "idle" before main()
   ci,             \* the client's loop variable i
   ccount,         \* args.count
   cpayload,       \* args.payload, as an item of the menu
   cbuf,           \* read_exact's accumulator
   cn,             \* the client's unpacked header, NoLen before
   crx,            \* bytes the client's peer wrote that the client has not read
   cout,           \* every byte the client wrote
   late,           \* time.time() > deadline in the current read_exact
   ctaken,         \* bytes the client took from the port in this iteration
   creplies        \* the items the client's peer wrote

\* no usb_cdc module: the import of main.py line 9 failed
UsbNone == [module |-> FALSE, data |-> "absent", console |-> "missing"]

bootvars == <<flag, pin, decision, duptermCalled, probe, sawFlag, ncalls, honored, boots>>
iovars   == <<usb, dev, rx, sent, buf, length, consumed, req, resp, handler, tx, ticks, faults>>
clientvars == <<cpc, ci, ccount, cpayload, cbuf, cn, crx, cout, late, ctaken, creplies>>
devicevars == <<pc, sinceEnter, bootvars, iovars>>
vars     == <<devicevars, clientvars>>

\* ---------------------------------------------------------------- boot.py
RemoveOutcomes == {"ok", "OSError", "Exception"}

BootFaults ==
   [pinctor : BOOLEAN, listdir : BOOLEAN, remove : RemoveOutcomes,
    value : BOOLEAN, dupterm : BOOLEAN]

NoBootFault ==
   [pinctor |-> FALSE, listdir |-> FALSE, remove |-> "ok", value |-> FALSE,
    dupterm |-> FALSE]

pin_check_inverted(p, f) ==
   [ret |-> IF f.value THEN FALSE ELSE p = 1,
    raised |-> IF f.value THEN {"value"} ELSE {}]

\* lines 20-24: the pin branch
pin_check(p, f) ==
   [ret |-> IF f.value THEN FALSE ELSE p = 0,
    raised |-> IF f.value THEN {"value"} ELSE {}]

\* in_maintenance(): fl is the marker's presence, p the pin level, f the faults
in_maintenance(fl, p, f) ==
   IF f.listdir
   THEN LET r == pin_check(p, f) IN
        [ret |-> r.ret, flag |-> fl, saw |-> FALSE, byflag |-> FALSE,
         raised |-> {"listdir"} \cup r.raised]
   ELSE IF fl
   THEN CASE f.remove = "ok" ->
               [ret |-> TRUE, flag |-> FALSE, saw |-> TRUE, byflag |-> TRUE,
                raised |-> {}]
          [] f.remove = "OSError" ->
               [ret |-> TRUE, flag |-> TRUE, saw |-> TRUE, byflag |-> TRUE,
                raised |-> {"remove"}]
          [] OTHER ->
               LET r == pin_check(p, f) IN
               [ret |-> r.ret, flag |-> TRUE, saw |-> TRUE, byflag |-> FALSE,
                raised |-> {"remove"} \cup r.raised]
   ELSE LET r == pin_check(p, f) IN
        [ret |-> r.ret, flag |-> fl, saw |-> FALSE, byflag |-> FALSE,
         raised |-> r.raised]

detaches_always(ret) == TRUE

\* line 27: os.dupterm(None, 0) is reached when in_maintenance() is false
detaches(ret) == ~ret

\* the module body of boot.py: line 6, then lines 26-33
BootModule(fl, p, f) ==
   IF f.pinctor
   THEN [aborted |-> TRUE, decision |-> "none", flag |-> fl, dupterm |-> FALSE,
         saw |-> FALSE, byflag |-> FALSE, calls |-> 0, raised |-> {"pinctor"}]
   ELSE LET r == in_maintenance(fl, p, f) IN
        [aborted |-> FALSE,
         decision |-> IF r.ret THEN "Maintenance" ELSE "Production",
         flag |-> r.flag, dupterm |-> detaches(r.ret), saw |-> r.saw, byflag |-> r.byflag,
         calls |-> 1,
         raised |-> r.raised \cup (IF detaches(r.ret) /\ f.dupterm THEN {"dupterm"} ELSE {})]

\* MicroPython executes boot.py; an exception leaving it ends boot.py only
Boot(f) ==
   /\ pc = "boot"
   /\ LET b == BootModule(flag, pin, f) IN
      /\ decision' = b.decision
      /\ flag' = b.flag
      /\ duptermCalled' = b.dupterm
      /\ probe' = b.raised
      /\ sawFlag' = b.saw
      /\ ncalls' = b.calls
      /\ honored' = IF b.byflag THEN honored + 1 ELSE honored
   /\ sinceEnter' = IF sinceEnter = 0 THEN 0 ELSE Min(sinceEnter + 1, 3)
   /\ pc' = "main"
   /\ UNCHANGED <<clientvars, pin, boots, iovars>>

\* ------------------------------------------------------- main.py: Transport
UsbConfigs ==
   [module : BOOLEAN, data : {"absent", "present"},
    console : {"missing", "absent", "present"}]

TransportInit_console_first(u) ==
   LET usbdev ==
          IF ~u.module THEN "none"
          ELSE IF u.console = "present" THEN "usb_console"
          ELSE IF u.data = "present" THEN "usb_data"
          ELSE "none"
   IN IF usbdev = "none" THEN "uart0" ELSE usbdev

\* Transport.__init__: u.module is the truth of usb_cdc after the import;
\* "missing" is an attribute whose access raises, "absent" one that is None
TransportInit(u) ==
   LET usbdev ==
          IF ~u.module THEN "none"
          ELSE IF u.data = "present" THEN "usb_data"
          ELSE IF u.console = "present" THEN "usb_console"
          ELSE "none"
   IN IF usbdev = "none" THEN "uart0" ELSE usbdev

\* ------------------------------------------------------- usbproto.py: read_n
read_n_request_whole(n, have) == n

\* the argument of dev.read when n bytes are wanted and have are accumulated
read_n_request(n, have) == n - have

\* the while condition of read_n is false: read_n returns buf
read_n_done(n, have) == ~(have < n)

\* ------------------------------------------------------- main.py: dispatch
TickSteps == {0, 1, TICKS_PERIOD - 1}    \* milliseconds between two clock reads
HeapFree  == {1024, 2048}                \* gc.mem_free()

ReadsClock(v) == v.type \in {"ping", "get_status"}

dispatch_echo_msg(v, now, heap) ==
   CASE v.type = "ping"       -> PongResp(now)
     [] v.type = "get_status" -> StatusResp(now, heap)
     [] v.type = "echo"       -> EchoResp(NONE)
     [] OTHER -> ErrorResp("UNKNOWN_CMD", <<"Unknown command: ", v.type>>)

dispatch(v, now, heap) ==
   CASE v.type = "ping"       -> PongResp(now)
     [] v.type = "get_status" -> StatusResp(now, heap)
     [] v.type = "echo"       -> EchoResp(v.data)
     [] OTHER -> ErrorResp("UNKNOWN_CMD", <<"Unknown command: ", v.type>>)

ExcResp(msg) == ErrorResp("EXC", <<msg>>)

\* ------------------------------------------------------------- the peer
Items == {"zero", "over", "ping", "echo", "enter", "status", "frob",
          "notype", "int", "bad"}

BootItems  == {"ping", "enter"}                                \* sent in SpecBoot
FaultItems == {"ping", "bad", "int"}                                \* sent in SpecFault

\* what one dev.read returns of the m bytes it could: nothing, half or all
Deliveries(request, avail) ==
   LET m == Min(request, avail) IN {0, (m + 1) \div 2, m}

BadText == SubSeq(CompactText(DictVal("ping", NONE)), 1, 7)

ItemPayload(it) ==
   CASE it = "ping"   -> CompactText(DictVal("ping", NONE))
     [] it = "echo"   -> CompactText(DictVal("echo", "hi"))
     [] it = "enter"  -> CompactText(DictVal("enter_maintenance", NONE))
     [] it = "status" -> CompactText(DictVal("get_status", NONE))
     [] it = "frob"   -> CompactText(DictVal("frobnicate", NONE))
     [] it = "notype" -> CompactText(DictVal(NONE, NONE))
     [] it = "int"    -> CompactText(IntVal(1))
     [] it = "bad"    -> BadText
     [] OTHER         -> <<>>

\* the bytes of one item: a frame as tools/test_usb.py builds it, or a bare
\* header encoding 0 or MAX_FRAME_BYTES + 1
Wire(it) ==
   CASE it = "zero" -> pack(0)
     [] it = "over" -> pack(MAX_FRAME_BYTES + 1)
     [] OTHER -> pack(Len(ItemPayload(it))) \o ItemPayload(it)

WireAll(its) == Concat([i \in 1..Len(its) |-> Wire(its[i])])

\* ------------------------------------------------------------------ actions
Init ==
   /\ flag \in BOOLEAN
   /\ pin \in {0, 1}
   /\ pc = "boot"
   /\ decision = "none"
   /\ duptermCalled = FALSE
   /\ probe = {}
   /\ sawFlag = FALSE
   /\ ncalls = 0
   /\ honored = 0
   /\ sinceEnter = 0
   /\ boots = 1
   /\ usb = UsbNone
   /\ dev = "none"
   /\ rx = <<>>
   /\ sent = <<>>
   /\ buf = <<>>
   /\ length = NoLen
   /\ consumed = 0
   /\ req = NoReq
   /\ resp = NoResp
   /\ handler = FALSE
   /\ tx = <<>>
   /\ ticks = 0
   /\ faults = 0
   /\ cpc = "idle"
   /\ ci = 0
   /\ ccount = 0
   /\ cpayload = "ping"
   /\ cbuf = <<>>
   /\ cn = NoLen
   /\ crx = <<>>
   /\ cout = <<>>
   /\ late = FALSE
   /\ ctaken = 0
   /\ creplies = <<>>

\* a power-on or reset event: RAM and channels are lost, storage is kept
Reset ==
   /\ pc # "boot"
   /\ boots < MaxBoots
   /\ boots' = boots + 1
   /\ pin' \in {0, 1}
   /\ pc' = "boot"
   /\ decision' = "none"
   /\ duptermCalled' = FALSE
   /\ probe' = {}
   /\ sawFlag' = FALSE
   /\ ncalls' = 0
   /\ usb' = UsbNone
   /\ dev' = "none"
   /\ rx' = <<>>
   /\ sent' = <<>>
   /\ buf' = <<>>
   /\ length' = NoLen
   /\ consumed' = 0
   /\ req' = NoReq
   /\ resp' = NoResp
   /\ handler' = FALSE
   /\ tx' = <<>>
   /\ ticks' = 0
   /\ faults' = 0
   /\ UNCHANGED <<clientvars, flag, honored, sinceEnter>>

\* the host creates the marker through the console (boot.py line 8)
HostCreateFlag ==
   /\ pc # "boot"
   /\ ~duptermCalled
   /\ ~flag
   /\ flag' = TRUE
   /\ honored' = 0
   /\ UNCHANGED <<clientvars, pc, sinceEnter, pin, decision, duptermCalled, probe, sawFlag,
                  ncalls, boots, iovars>>

\* MicroPython executes main.py after boot.py: main() line 55
MainStart(u) ==
   /\ pc = "main"
   /\ usb' = u
   /\ dev' = TransportInit(u)
   /\ pc' = "hdr"
   /\ UNCHANGED <<clientvars, sinceEnter, bootvars, rx, sent, buf, length, consumed, req, resp,
                  handler, tx, ticks, faults>>

PeerSend(it, cap) ==
   /\ pc \notin {"boot", "main"}
   /\ Len(sent) < cap
   /\ rx' = rx \o Wire(it)
   /\ sent' = Append(sent, it)
   /\ UNCHANGED <<clientvars, pc, sinceEnter, bootvars, usb, dev, buf, length, consumed, req, resp,
                  handler, tx, ticks, faults>>

Wanted == IF pc = "hdr" THEN 4 ELSE length

\* one dev.read inside read_n: the channel returns k of the bytes asked for
ReadChunk(k) ==
   /\ pc \in {"hdr", "payload"}
   /\ ~read_n_done(Wanted, Len(buf))
   /\ k <= Min(read_n_request(Wanted, Len(buf)), Len(rx))
   /\ buf' = buf \o SubSeq(rx, 1, k)
   /\ rx' = Drop(rx, k)
   /\ consumed' = consumed + k
   /\ UNCHANGED <<clientvars, pc, sinceEnter, bootvars, usb, dev, sent, length, req, resp, handler,
                  tx, ticks, faults>>

\* recv_obj lines 16-17: read_n(dev, 4) returned, the header is unpacked
RecvHeader ==
   /\ pc = "hdr"
   /\ read_n_done(4, Len(buf))
   /\ length' = unpack(buf)
   /\ buf' = <<>>
   /\ pc' = "payload"
   /\ UNCHANGED <<clientvars, sinceEnter, bootvars, usb, dev, rx, sent, consumed, req, resp, handler,
                  tx, ticks, faults>>

\* recv_obj lines 18-19 and main lines 58-59: read_n(dev, length) returned,
\* json.loads and dispatch run; an exception enters the except clause
RecvPayload(dt, heap) ==
   /\ pc = "payload"
   /\ read_n_done(length, Len(buf))
   /\ LET v == json_loads(buf) IN
      /\ req' = v
      /\ dt \in (IF v.kind = "dict" /\ ReadsClock(v) THEN TickSteps ELSE {0})
      /\ heap \in (IF v.kind = "dict" /\ v.type = "get_status"
                   THEN HeapFree ELSE {1024})
      /\ ticks' = (ticks + dt) % TICKS_PERIOD
      /\ CASE v.kind = "ValueError" ->
                /\ resp' = ExcResp(MSG_JSON)
                /\ handler' = TRUE
                /\ sinceEnter' = sinceEnter
           [] v.kind = "int" ->
                /\ resp' = ExcResp(MSG_ATTR)
                /\ handler' = TRUE
                /\ sinceEnter' = sinceEnter
           [] OTHER ->
                /\ resp' = dispatch(v, (ticks + dt) % TICKS_PERIOD, heap)
                /\ handler' = FALSE
                /\ sinceEnter' = IF v.type = "enter_maintenance" THEN 1
                                 ELSE sinceEnter
   /\ buf' = <<>>
   /\ pc' = "send_hdr"
   /\ UNCHANGED <<clientvars, bootvars, usb, dev, rx, sent, length, consumed, tx, faults>>

\* dev.read raises inside read_n: main line 61
ReadFault ==
   /\ pc \in {"hdr", "payload"}
   /\ ~read_n_done(Wanted, Len(buf))
   /\ faults < MaxFaults
   /\ faults' = faults + 1
   /\ resp' = ExcResp(MSG_EIO)
   /\ handler' = TRUE
   /\ buf' = <<>>
   /\ pc' = "send_hdr"
   /\ UNCHANGED <<clientvars, sinceEnter, bootvars, usb, dev, rx, sent, length, consumed, req, tx,
                  ticks>>

\* send_obj lines 22-24: dev.write(hdr)
SendHdr ==
   /\ pc = "send_hdr"
   /\ tx' = tx \o pack(Len(json_dumps(resp)))
   /\ pc' = "send_payload"
   /\ UNCHANGED <<clientvars, sinceEnter, bootvars, usb, dev, rx, sent, buf, length, consumed, req,
                  resp, handler, ticks, faults>>

\* the while loop of main starts its next iteration
NextIteration ==
   /\ pc' = "hdr"
   /\ buf' = <<>>
   /\ length' = NoLen
   /\ consumed' = 0
   /\ req' = NoReq
   /\ resp' = NoResp
   /\ handler' = FALSE

\* send_obj lines 25-26: dev.write(payload), flush; write_obj returns
SendPayload ==
   /\ pc = "send_payload"
   /\ tx' = tx \o json_dumps(resp)
   /\ NextIteration
   /\ UNCHANGED <<clientvars, sinceEnter, bootvars, usb, dev, rx, sent, ticks, faults>>

\* main lines 65-66: the exception of the except clause's own write is passed
\* and the while loop goes on
except_pass_propagates ==
   /\ pc' = "exit"
   /\ UNCHANGED <<buf, length, consumed, req, resp, handler>>

except_pass == NextIteration

\* the bytes the pending dev.write was given
Pending == IF pc = "send_hdr" THEN pack(Len(json_dumps(resp))) ELSE json_dumps(resp)

\* dev.write raises after j bytes went out: in the try body the except clause
\* writes the EXC response (line 64), in the except clause it is passed (65-66)
WriteFault(j) ==
   /\ pc \in {"send_hdr", "send_payload"}
   /\ faults < MaxFaults
   /\ j < Len(Pending)
   /\ faults' = faults + 1
   /\ tx' = tx \o SubSeq(Pending, 1, j)
   /\ IF handler
      THEN except_pass
      ELSE /\ resp' = ExcResp(MSG_EIO)
           /\ handler' = TRUE
           /\ pc' = "send_hdr"
           /\ UNCHANGED <<buf, length, consumed, req>>
   /\ UNCHANGED <<clientvars, sinceEnter, bootvars, usb, dev, rx, sent, ticks>>

\* boot.py and reboots, with a short exchange in each run

NextBoot ==
   \/ \E f \in BootFaults : Boot(f)
   \/ Reset
   \/ HostCreateFlag
   \/ MainStart(UsbNone)
   \/ \E it \in BootItems : PeerSend(it, MaxBootSends)
   \/ \E k \in Deliveries(read_n_request(Wanted, Len(buf)), Len(rx)) : ReadChunk(k)
   \/ RecvHeader
   \/ \E dt \in TickSteps, heap \in HeapFree : RecvPayload(dt, heap)
   \/ SendHdr
   \/ SendPayload

SpecBoot == Init /\ [][NextBoot]_vars

\* one run of the serving loop after a boot with the marker absent, the pin
\* high and no probe fault
InitRun == Init /\ ~flag /\ pin = 1

Next ==
   \/ Boot(NoBootFault)
   \/ \E u \in UsbConfigs : MainStart(u)
   \/ \E it \in Items : PeerSend(it, MaxSends)
   \/ \E k \in Deliveries(read_n_request(Wanted, Len(buf)), Len(rx)) : ReadChunk(k)
   \/ RecvHeader
   \/ \E dt \in TickSteps, heap \in HeapFree : RecvPayload(dt, heap)
   \/ SendHdr
   \/ SendPayload

Spec == InitRun /\ [][Next]_vars

\* one run in which the transport raises
NextFault ==
   \/ Boot(NoBootFault)
   \/ MainStart(UsbNone)
   \/ \E it \in FaultItems : PeerSend(it, MaxFaultSends)
   \/ \E k \in Deliveries(read_n_request(Wanted, Len(buf)), Len(rx)) : ReadChunk(k)
   \/ RecvHeader
   \/ \E dt \in TickSteps, heap \in HeapFree : RecvPayload(dt, heap)
   \/ ReadFault
   \/ SendHdr
   \/ SendPayload
   \/ \E j \in 0..MaxPartial : WriteFault(j)

SpecFault == InitRun /\ [][NextFault]_vars

\* ------------------------------------------------------------ properties
BootStep == pc = "boot" /\ pc' # "boot"

EnterStep ==
   /\ pc = "payload"
   /\ pc' = "send_hdr"
   /\ req'.kind = "dict"
   /\ req'.type = "enter_maintenance"

BadLength(n) == n # NoLen /\ (n = 0 \/ n > MAX_FRAME_BYTES)

\* C1: when the loop dispatches a request of type "enter_maintenance" the
\* marker is created and the device reboots; the next boot decides
\* Maintenance, and the boot after it, with the pin high and no further
\* such request, decides Production.
C1_MaintenanceOneShot ==
   [][ /\ EnterStep => (flag' /\ pc' = "boot")
       /\ (BootStep /\ sinceEnter = 1) => decision' = "Maintenance"
       /\ (BootStep /\ sinceEnter = 2 /\ pin = 1) => decision' = "Production" ]_vars

\* C2: in every boot in which in_maintenance() finds the marker, the marker
\* is absent when it returns, whatever the delete did; so one creation of the
\* marker gives a Maintenance decision in at most one boot.
C2_FlagConsumed ==
   [][ /\ (BootStep /\ sawFlag') => ~flag'
       /\ honored' <= 1 ]_vars

\* C3: in a boot without probe faults the decision is Maintenance exactly when
\* the marker is present or the pin is low, whatever the earlier boots did, and
\* in_maintenance() is evaluated once in the boot.
C3_BootDecision ==
   [][ /\ (BootStep /\ probe' \subseteq {"dupterm"}) =>
             /\ decision' \in {"Maintenance", "Production"}
             /\ (decision' = "Maintenance") <=> (flag \/ pin = 0)
             /\ ncalls' = 1
       /\ (pc # "boot" /\ pc' # "boot") =>
             (decision' = decision /\ ncalls' = ncalls) ]_vars

C3_Witness ==
   /\ pc = "main"
   /\ boots > 1
   /\ probe = {}
   /\ ~sawFlag
   /\ pin = 0
   /\ decision = "Maintenance"

\* C4: whatever exceptions the listing, the delete, the pin construction and
\* the pin read raise, the boot reaches a decision; a listing fault falls
\* through to the pin check, and when listing and pin read both fail the
\* decision is Production.
C4_ProbeFaultTolerance ==
   pc # "boot" =>
      /\ decision \in {"Maintenance", "Production"}
      /\ "listdir" \in probe =>
            ((decision = "Maintenance") <=> ("value" \notin probe /\ pin = 0))
      /\ {"listdir", "value"} \subseteq probe => decision = "Production"

\* C5: the console is detached (os.dupterm(None, 0) is called) in every boot
\* that decided Production and in no boot that decided Maintenance.
C5_ConsoleDetach ==
   /\ decision = "Production" => duptermCalled
   /\ decision = "Maintenance" => ~duptermCalled

C5_Witness ==
   /\ pc = "main"
   /\ decision = "Production"
   /\ duptermCalled
   /\ probe = {}

\* C6: the dispatcher loop is entered only after a Production decision; in a
\* boot that decided Maintenance no transport is bound, no byte is read and
\* no byte is written.
C6_LoopOnlyInProduction ==
   /\ pc \notin {"boot", "main"} => decision = "Production"
   /\ decision = "Maintenance" => (dev = "none" /\ consumed = 0 /\ tx = <<>>)

\* C7: after a header encoding 0 or more than MAX_FRAME_BYTES recv_obj reads
\* no byte as that frame's payload: the 4 header bytes are all it consumed.
C7_HeaderRejection ==
   BadLength(length) => consumed = 4

\* C8: for a header encoding 0 or more than MAX_FRAME_BYTES the loop writes
\* nothing to the transport and goes on to its next iteration.
C8_FramingSilent ==
   [][ BadLength(length) =>
          /\ tx' = tx
          /\ pc' # pc => pc' = "hdr" ]_vars

\* the payloads of the complete frames in a byte stream
RECURSIVE Frames(_)
Frames(s) ==
   IF Len(s) < 4 THEN <<>>
   ELSE LET n == unpack(SubSeq(s, 1, 4)) IN
        IF Len(s) < 4 + n THEN <<>>
        ELSE <<SubSeq(s, 5, 4 + n)>> \o Frames(Drop(s, 4 + n))

PongHead == <<123>> \o Quoted("type") \o <<58, 32>> \o Quoted("pong")

NumPong(s) ==
   Cardinality({i \in 1..Len(Frames(s)) : IsPrefix(PongHead, Frames(s)[i])})

\* the device has read everything the peer wrote and waits inside read_n
Quiescent ==
   /\ rx = <<>>
   /\ pc \in {"hdr", "payload"}
   /\ ~read_n_done(Wanted, Len(buf))

\* C9: when the peer wrote a header with a bad length, then one ping frame and
\* nothing more, the device has written exactly one pong once it has read
\* everything and waits for input again.
C9_RecoveryAfterBadHeader ==
   (sent \in {<<"zero", "ping">>, <<"over", "ping">>} /\ Quiescent)
      => NumPong(tx) = 1

\* json.loads raised on the payload of a frame with a valid header
ParseFailed ==
   /\ pc = "send_hdr"
   /\ req.kind = "ValueError"
   /\ ~BadLength(length)

\* the unread bytes start at the first byte of an item the peer wrote
AlignedRx == \E k \in 0..Len(sent) : rx = WireAll(Drop(sent, k))

\* C10: when the payload of a frame with a valid header fails to parse,
\* recv_obj has consumed exactly 4 + length bytes, the unread bytes start at
\* the next frame, and the loop writes an error response and reads on.
C10_AlignedAfterParseFailure ==
   [][ /\ ParseFailed' =>
             /\ consumed' = 4 + length'
             /\ AlignedRx'
             /\ handler'
             /\ resp'.type = "error"
       /\ (req.kind = "ValueError" /\ pc = "send_payload" /\ pc' # pc) =>
             /\ pc' = "hdr"
             /\ tx' = tx \o json_dumps(resp) ]_vars

C10_Witness ==
   /\ ParseFailed
   /\ length = Len(BadText)
   /\ sent = <<"bad", "ping">>
   /\ rx = Wire("ping")

\* C11: a payload that fails to parse is answered as a request without
\* "type" is: with the UNKNOWN_CMD error response, and the parser's message is
\* not written to the wire.
C11_ParseFailureIsUnknownCmd ==
   ParseFailed =>
      /\ resp = dispatch(DictVal(NONE, NONE), ticks, 1024)
      /\ \A i \in 1..Len(resp.message) : resp.message[i] # MSG_JSON

\* the response texts of the dispatch table, byte for byte
\* {"type": "echo", "data": "hi"}
LitEchoHi ==
   <<123, 34, 116, 121, 112, 101, 34, 58, 32, 34, 101, 99, 104, 111, 34, 44, 32, 34, 100, 97,
      116, 97, 34, 58, 32, 34, 104, 105, 34, 125>>

\* {"type": "echo", "data": null}
LitEchoNull ==
   <<123, 34, 116, 121, 112, 101, 34, 58, 32, 34, 101, 99, 104, 111, 34, 44, 32, 34, 100, 97,
      116, 97, 34, 58, 32, 110, 117, 108, 108, 125>>

\* {"type": "error", "code": "UNKNOWN_CMD", "message": "Unknown command: frobnicate"}
LitUnknownFrob ==
   <<123, 34, 116, 121, 112, 101, 34, 58, 32, 34, 101, 114, 114, 111, 114, 34, 44, 32, 34, 99,
      111, 100, 101, 34, 58, 32, 34, 85, 78, 75, 78, 79, 87, 78, 95, 67, 77, 68, 34, 44, 32, 34,
      109, 101, 115, 115, 97, 103, 101, 34, 58, 32, 34, 85, 110, 107, 110, 111, 119, 110, 32, 99,
      111, 109, 109, 97, 110, 100, 58, 32, 102, 114, 111, 98, 110, 105, 99, 97, 116, 101, 34,
      125>>

\* {"type": "error", "code": "UNKNOWN_CMD", "message": "Unknown command: None"}
LitUnknownNone ==
   <<123, 34, 116, 121, 112, 101, 34, 58, 32, 34, 101, 114, 114, 111, 114, 34, 44, 32, 34, 99,
      111, 100, 101, 34, 58, 32, 34, 85, 78, 75, 78, 79, 87, 78, 95, 67, 77, 68, 34, 44, 32, 34,
      109, 101, 115, 115, 97, 103, 101, 34, 58, 32, 34, 85, 110, 107, 110, 111, 119, 110, 32, 99,
      111, 109, 109, 97, 110, 100, 58, 32, 78, 111, 110, 101, 34, 125>>

\* {"type": "pong", "ts": 
LitPongA ==
   <<123, 34, 116, 121, 112, 101, 34, 58, 32, 34, 112, 111, 110, 103, 34, 44, 32, 34, 116, 115,
      34, 58, 32>>

\* , "version": "0.1.0"}
LitPongB ==
   <<44, 32, 34, 118, 101, 114, 115, 105, 111, 110, 34, 58, 32, 34, 48, 46, 49, 46, 48, 34,
      125>>

\* {"type": "status", "uptime_ms": 
LitStatusA ==
   <<123, 34, 116, 121, 112, 101, 34, 58, 32, 34, 115, 116, 97, 116, 117, 115, 34, 44, 32, 34,
      117, 112, 116, 105, 109, 101, 95, 109, 115, 34, 58, 32>>

\* , "heap_free": 
LitStatusB ==
   <<44, 32, 34, 104, 101, 97, 112, 95, 102, 114, 101, 101, 34, 58, 32>>

\* dispatch returned for a request that is a mapping
Dispatched ==
   /\ pc \in {"send_hdr", "send_payload"}
   /\ req.kind = "dict"
   /\ ~handler

\* C12: for a request that is a mapping the response is fixed by its "type":
\* ping gives pong with ts and version, get_status gives status with
\* uptime_ms, heap_free and version, echo gives exactly type and the data
\* unchanged, and a type outside the recognized kinds (or none) gives the
\* UNKNOWN_CMD error naming the type.
C12_DispatchTable ==
   Dispatched =>
      CASE req.type = "ping" ->
              /\ resp.type = "pong"
              /\ json_dumps(resp) = LitPongA \o Digits(ticks) \o LitPongB
        [] req.type = "get_status" ->
              /\ resp.type = "status"
              /\ \E h \in HeapFree :
                    json_dumps(resp) = LitStatusA \o Digits(ticks) \o LitStatusB
                                       \o Digits(h) \o LitPongB
        [] req.type = "echo" ->
              /\ resp.type = "echo"
              /\ resp.data = req.data
              /\ json_dumps(resp) = IF req.data = "hi" THEN LitEchoHi ELSE LitEchoNull
        [] req.type = "enter_maintenance" -> TRUE
        [] OTHER ->
              /\ resp.type = "error"
              /\ resp.code = "UNKNOWN_CMD"
              /\ json_dumps(resp) = IF req.type = NONE THEN LitUnknownNone
                                    ELSE LitUnknownFrob

C12_Witness ==
   /\ pc = "send_payload"
   /\ req = DictVal("echo", "hi")
   /\ resp = EchoResp("hi")
   /\ sent = <<"frob", "echo">>


\* ------------------------------------------------- ordering of responses
\* the items that are frames holding a request mapping
RequestItems == {"ping", "echo", "enter", "status", "frob", "notype"}

\* how a response text of type t begins
TypeHead(t) == <<123>> \o Quoted("type") \o <<58, 32>> \o Quoted(t)

ResponseType(it) ==
   CASE it = "ping"   -> "pong"
     [] it = "status" -> "status"
     [] it = "echo"   -> "echo"
     [] OTHER         -> "error"

\* the requests before the first enter_maintenance request
RECURSIVE BeforeEnter(_)
BeforeEnter(its) ==
   IF its = <<>> \/ Head(its) = "enter" THEN <<>>
   ELSE <<Head(its)>> \o BeforeEnter(Tail(its))

\* the bytes the device has taken from the channel in this run
BytesRead == Len(WireAll(sent)) - Len(rx)

\* C13: when every frame the peer wrote holds a request mapping, the complete
\* frames written are the responses to the requests before the first
\* enter_maintenance, one each and in order; no byte of request k+1 is read
\* before response k is complete; with everything read and no
\* enter_maintenance every request has its response; and once an
\* enter_maintenance request is dispatched the run has ended (nothing is
\* written for it and the device reboots).
C13_OneToOneOrdered ==
   (\A i \in 1..Len(sent) : sent[i] \in RequestItems) =>
      LET answered == BeforeEnter(sent)
          k == Len(Frames(tx))
      IN /\ k <= Len(answered)
         /\ \A i \in 1..Min(k, Len(answered)) :
               IsPrefix(TypeHead(ResponseType(answered[i])), Frames(tx)[i])
         /\ BytesRead <= Len(WireAll(SubSeq(sent, 1, Min(k + 1, Len(sent)))))
         /\ (Quiescent /\ answered = sent) => k = Len(sent)
         /\ sinceEnter = 1 => pc = "boot"


\* ------------------------------------------------------------ availability
LoopPcs == {"hdr", "payload", "send_hdr", "send_payload"}

\* a step in which the try body of the loop raises: a transport fault outside
\* the except clause, or a payload that does not parse or is no mapping
RaisedInBody ==
   \/ ~handler /\ faults' = faults + 1
   \/ pc = "payload" /\ pc' = "send_hdr" /\ req'.kind \in {"ValueError", "int"}

\* a step in which the write of the except clause raises
RaisedInHandler == handler /\ faults' = faults + 1

\* C14: every exception raised in the try body of an iteration takes the loop
\* to the write of one error response with code EXC; when that write raises,
\* the fault is passed; after either the loop starts another iteration, and no
\* step takes main() out of its loop.
C14_LoopAvailability ==
   [][ /\ RaisedInBody =>
             /\ handler'
             /\ pc' = "send_hdr"
             /\ resp'.type = "error"
             /\ resp'.code = "EXC"
       /\ RaisedInHandler => (pc' = "hdr" /\ ~handler')
       /\ (handler /\ pc = "send_payload" /\ pc' # pc) => (pc' = "hdr" /\ ~handler')
       /\ pc \in LoopPcs => pc' \in LoopPcs ]_vars

C14_Witness ==
   /\ pc = "hdr"
   /\ faults = 1
   /\ sent = <<"int">>
   /\ rx = <<>>
   /\ buf = <<>>
   /\ tx # <<>>
   /\ Frames(tx) = <<>>


\* ------------------------------------------------------------- timestamps
\* the number a run of decimal digit bytes writes
RECURSIVE Number(_)
Number(ds) ==
   IF ds = <<>> THEN 0
   ELSE 10 * Number(SubSeq(ds, 1, Len(ds) - 1)) + (ds[Len(ds)] - 48)

\* the "ts" member of a pong response text
TsOf(f) == Number(SubSeq(f, Len(LitPongA) + 1, Len(f) - Len(LitPongB)))

\* the pong responses among the complete frames of a byte stream, in order
PongFrames(s) == SelectSeq(Frames(s), LAMBDA f : IsPrefix(LitPongA, f))

\* C15: of any two pong responses written in one run, the later one carries a
\* "ts" greater than or equal to the earlier one's.
C15_PingTsMonotone ==
   LET ps == PongFrames(tx) IN
      \A i, j \in 1..Len(ps) : i < j => TsOf(ps[i]) <= TsOf(ps[j])


\* ------------------------------------------------------------------ codec
\* frames with a valid header, read in every split into chunks
CodecItems == {"ping", "echo", "bad"}

NextCodec ==
   \/ Boot(NoBootFault)
   \/ MainStart(UsbNone)
   \/ \E it \in CodecItems : PeerSend(it, MaxCodecSends)
   \/ \E k \in 0..Len(rx) : ReadChunk(k)
   \/ RecvHeader
   \/ \E dt \in TickSteps, heap \in HeapFree : RecvPayload(dt, heap)
   \/ SendHdr
   \/ SendPayload

SpecCodec == InitRun /\ [][NextCodec]_vars

\* the frame tools/test_usb.py writes for its default payload {"type":"ping"}
LitPingFrame ==
   <<0, 0, 0, 15, 123, 34, 116, 121, 112, 101, 34, 58, 34, 112, 105, 110, 103, 34, 125>>

\* lengths at the byte boundaries of the header, up to the frame limit
CodecLengths == {1, 15, 255, 256, 258, 65535, MAX_FRAME_BYTES}

\* the unsigned number four bytes write, most significant byte first
BigEndian(h) == ((h[1] * 256 + h[2]) * 256 + h[3]) * 256 + h[4]

\* read_n(dev, length) returns inside recv_obj
PayloadReturn == pc = "payload" /\ pc' = "send_hdr"

\* C16: the encoder writes the 4-byte big-endian length of the payload and
\* then the payload; the decoder, whatever chunks and empty reads the channel
\* gave, returns the payload of the frame the peer wrote and has consumed
\* exactly 4 + length bytes of it.
C16_CodecRoundTrip ==
   [][ /\ Wire("ping") = LitPingFrame
       /\ pack(258) = <<0, 0, 1, 2>>
       /\ pack(MAX_FRAME_BYTES) = <<0, 1, 0, 0>>
       /\ \A n \in CodecLengths :
             /\ Len(pack(n)) = 4
             /\ \A i \in 1..4 : pack(n)[i] \in 0..255
             /\ BigEndian(pack(n)) = n
             /\ unpack(pack(n)) = n
       /\ (pc = "send_hdr" /\ pc' = "send_payload") =>
             /\ Len(tx') = Len(tx) + 4
             /\ SubSeq(tx', 1, Len(tx)) = tx
             /\ BigEndian(Drop(tx', Len(tx))) = Len(json_dumps(resp))
       /\ (pc = "send_payload" /\ pc' = "hdr") => tx' = tx \o json_dumps(resp)
       /\ PayloadReturn =>
             \E k \in 1..Len(sent) :
                /\ BytesRead = Len(WireAll(SubSeq(sent, 1, k)))
                /\ buf = ItemPayload(sent[k])
                /\ length = Len(ItemPayload(sent[k]))
                /\ consumed = 4 + Len(ItemPayload(sent[k])) ]_vars

C16_Witness ==
   /\ pc = "send_hdr"
   /\ sent = <<"echo", "ping">>
   /\ req = DictVal("ping", NONE)
   /\ consumed = Len(LitPingFrame)
   /\ rx = <<>>
   /\ Len(Frames(tx)) = 1


\* --------------------------------------------------------------- read_n
\* the busy loop of read_n keeps calling dev.read, the channel hands over
\* bytes it holds, and recv_obj goes on when read_n returned
SpecCodecFair ==
   /\ SpecCodec
   /\ WF_vars(\E k \in 1..Len(rx) : ReadChunk(k))
   /\ WF_vars(RecvHeader)
   /\ WF_vars(\E dt \in TickSteps, heap \in HeapFree : RecvPayload(dt, heap))

\* inside read_n: buf holds no more than n bytes, and they are the last bytes
\* taken from the channel, in the order the peer wrote them
Accumulated ==
   pc \in {"hdr", "payload"} =>
      /\ Len(buf) <= Wanted
      /\ buf = SubSeq(WireAll(sent), BytesRead - Len(buf) + 1, BytesRead)

\* read_n(dev, 4) returns inside recv_obj
HeaderReturn == pc = "hdr" /\ pc' = "payload"

\* C17: read_n returns only with exactly n bytes, which are the next n bytes
\* of the channel in arrival order; no dev.read takes more than the bytes still
\* missing, so nothing beyond the n-th byte is consumed; and when the channel
\* holds the missing bytes and hands them over, read_n returns.
C17_ExactRead ==
   /\ []Accumulated
   /\ [][ /\ HeaderReturn => (Len(buf) = 4 /\ consumed = 4)
          /\ PayloadReturn => (Len(buf) = length /\ consumed = 4 + length)
          /\ (pc' = pc /\ buf' # buf) =>
                /\ Len(buf') <= Wanted
                /\ buf' \o rx' = buf \o rx
                /\ IsPrefix(buf, buf') ]_vars
   /\ (pc = "hdr" /\ Len(buf) + Len(rx) >= 4) ~> (pc = "payload")
   /\ (pc = "payload" /\ Len(buf) + Len(rx) >= length) ~> (pc = "send_hdr")

C17_Witness ==
   /\ pc = "payload"
   /\ sent = <<"ping", "echo">>
   /\ length = 15
   /\ Len(buf) = 7
   /\ rx = Drop(LitPingFrame, 11) \o Wire("echo")


\* ------------------------------------------------------------- transport
\* one run with every USB configuration and transport faults
NextTransport ==
   \/ Boot(NoBootFault)
   \/ \E u \in UsbConfigs : MainStart(u)
   \/ \E it \in FaultItems : PeerSend(it, MaxFaultSends)
   \/ \E k \in Deliveries(read_n_request(Wanted, Len(buf)), Len(rx)) : ReadChunk(k)
   \/ RecvHeader
   \/ \E dt \in TickSteps, heap \in HeapFree : RecvPayload(dt, heap)
   \/ ReadFault
   \/ SendHdr
   \/ SendPayload
   \/ \E j \in 0..MaxPartial : WriteFault(j)

SpecTransport == InitRun /\ [][NextTransport]_vars

DataAvailable(u)    == u.module /\ u.data = "present"
ConsoleAvailable(u) == u.module /\ u.console = "present"

\* C18: the bound channel is the USB data channel when that is available,
\* else the USB console channel when that is available, else UART0, so UART0
\* exactly when neither USB channel is available; once bound it is the same
\* after every read, write and fault of the run.
C18_TransportSelection ==
   [][ /\ pc' \notin {"boot", "main"} =>
             /\ DataAvailable(usb') => dev' = "usb_data"
             /\ (~DataAvailable(usb') /\ ConsoleAvailable(usb')) => dev' = "usb_console"
             /\ (dev' = "uart0") <=> (~DataAvailable(usb') /\ ~ConsoleAvailable(usb'))
       /\ pc \notin {"boot", "main"} => (dev' = dev /\ usb' = usb) ]_vars

C18_Witness ==
   /\ usb = [module |-> TRUE, data |-> "absent", console |-> "present"]
   /\ dev = "usb_console"
   /\ faults = 1
   /\ pc = "hdr"
   /\ tx # <<>>


\* ------------------------------------------------------- outgoing stream
\* every response text send_obj is given begins {"type": " and ends }
ResponseOpen == <<123>> \o Quoted("type") \o <<58, 32, 34>>

IsResponseText(p) == IsPrefix(ResponseOpen, p) /\ p[Len(p)] = 125

IsResponsePrefix(p) == IsPrefix(p, ResponseOpen) \/ IsPrefix(ResponseOpen, p)

\* s is complete frames of send_obj followed by at most a prefix of one
RECURSIVE WellFramed(_)
WellFramed(s) ==
   IF Len(s) < 4 THEN TRUE
   ELSE LET n == unpack(SubSeq(s, 1, 4)) IN
        /\ 0 < n
        /\ n <= MAX_FRAME_BYTES
        /\ IF Len(s) < 4 + n
           THEN IsResponsePrefix(Drop(s, 4))
           ELSE /\ IsResponseText(SubSeq(s, 5, 4 + n))
                /\ WellFramed(Drop(s, 4 + n))

\* C19: the bytes written so far are complete frames (a 4-byte big-endian
\* length and that many bytes of a response text) followed by at most a
\* prefix of one frame, also after a write raised part-way through send_obj
\* and the EXC response was written.
C19_OutgoingWellFramed == WellFramed(tx)


\* ------------------------------------------------ tools/test_usb.py: client
CLIENT_MAX_LEN == 65536

\* the --json texts the client is run with
ClientItems == {"ping", "echo"}

\* line 55
frame(payload) == pack(Len(payload)) \o payload

\* what the client's peer writes: a pong frame, a bare header encoding 0 or
\* 65537, or a header followed by only the start of its payload
ReplyItems == {"pong", "zero", "over", "cut"}

ReplyWire(r) ==
   LET text == json_dumps(PongResp(0)) IN
   CASE r = "pong" -> pack(Len(text)) \o text
     [] r = "zero" -> pack(0)
     [] r = "over" -> pack(CLIENT_MAX_LEN + 1)
     [] OTHER      -> pack(Len(text)) \o SubSeq(text, 1, 3)

\* read_exact line 26: the size asked of ser.read
read_exact_request(n, have) == n - have

\* read_exact line 25
read_exact_done(n, have) == ~(have < n)

client_bad_length_nonzero(n) == n > CLIENT_MAX_LEN

\* line 71
client_bad_length(n) == n = 0 \/ n > CLIENT_MAX_LEN

cwant == IF cpc = "hdr" THEN 4 ELSE cn

\* main() lines 33-62: arguments parsed, payload framed, port opened
ClientMain(count, it) ==
   /\ cpc = "idle"
   /\ ccount' = count
   /\ cpayload' = it
   /\ cpc' = "send"
   /\ UNCHANGED <<devicevars, ci, cbuf, cn, crx, cout, late, ctaken, creplies>>

\* lines 66-67 and the entry of read_exact(ser, 4, timeout)
ClientWrite ==
   /\ cpc = "send"
   /\ cout' = cout \o frame(ItemPayload(cpayload))
   /\ cbuf' = <<>>
   /\ cn' = NoLen
   /\ late' = FALSE
   /\ ctaken' = 0
   /\ cpc' = "hdr"
   /\ UNCHANGED <<devicevars, ci, ccount, cpayload, crx, creplies>>

\* lines 26-28: ser.read returned k > 0 bytes
ClientRead(k) ==
   /\ cpc \in {"hdr", "body"}
   /\ ~read_exact_done(cwant, Len(cbuf))
   /\ k >= 1
   /\ k <= Min(read_exact_request(cwant, Len(cbuf)), Len(crx))
   /\ cbuf' = cbuf \o SubSeq(crx, 1, k)
   /\ crx' = Drop(crx, k)
   /\ ctaken' = ctaken + k
   /\ UNCHANGED <<devicevars, cpc, ci, ccount, cpayload, cn, cout, late, creplies>>

\* the deadline of the current read_exact passes
DeadlinePasses ==
   /\ cpc \in {"hdr", "body"}
   /\ ~late
   /\ late' = TRUE
   /\ UNCHANGED <<devicevars, cpc, ci, ccount, cpayload, cbuf, cn, crx, cout, ctaken,
                  creplies>>

\* lines 29-30: ser.read returned nothing after the deadline
ClientTimeout ==
   /\ cpc \in {"hdr", "body"}
   /\ ~read_exact_done(cwant, Len(cbuf))
   /\ crx = <<>>
   /\ late
   /\ cpc' = "TimeoutError"
   /\ UNCHANGED <<devicevars, ci, ccount, cpayload, cbuf, cn, crx, cout, late, ctaken,
                  creplies>>

\* lines 69-75: read_exact(ser, 4) returned; the header is unpacked and checked
ClientHeader ==
   /\ cpc = "hdr"
   /\ read_exact_done(4, Len(cbuf))
   /\ cn' = unpack(cbuf)
   /\ cbuf' = <<>>
   /\ late' = FALSE
   /\ cpc' = IF client_bad_length(unpack(cbuf)) THEN "exit3" ELSE "body"
   /\ UNCHANGED <<devicevars, ci, ccount, cpayload, crx, cout, ctaken, creplies>>

\* lines 75-82 and 64: read_exact(ser, n) returned; the next iteration or OK
ClientBody ==
   /\ cpc = "body"
   /\ read_exact_done(cn, Len(cbuf))
   /\ ci' = ci + 1
   /\ cbuf' = <<>>
   /\ cpc' = IF ci + 1 < ccount THEN "send" ELSE "OK"
   /\ UNCHANGED <<devicevars, ccount, cpayload, cn, crx, cout, late, ctaken, creplies>>

\* the client's peer writes to the port
PeerReply(r) ==
   /\ cpc # "idle"
   /\ Len(creplies) < MaxReplies
   /\ crx' = crx \o ReplyWire(r)
   /\ creplies' = Append(creplies, r)
   /\ UNCHANGED <<devicevars, cpc, ci, ccount, cpayload, cbuf, cn, cout, late, ctaken>>

NextClient ==
   \/ \E count \in 1..MaxCount, it \in ClientItems : ClientMain(count, it)
   \/ ClientWrite
   \/ \E k \in 1..Len(crx) : ClientRead(k)
   \/ DeadlinePasses
   \/ ClientTimeout
   \/ ClientHeader
   \/ ClientBody
   \/ \E r \in ReplyItems : PeerReply(r)

SpecClient == InitRun /\ [][NextClient]_vars

\* the frame of the --json text {"type":"echo","data":"hi"}
LitEchoFrame ==
   <<0, 0, 0, 27>> \o
   <<123, 34, 116, 121, 112, 101, 34, 58, 34, 101, 99, 104, 111, 34, 44, 34, 100, 97, 116, 97, 34, 58, 34, 104, 105, 34, 125>>

\* the frames the client has written and not yet read a response frame for
Outstanding == IF cpc \in {"idle", "send", "OK"} THEN 0 ELSE 1

\* C20: the client writes one frame per iteration, the header holding the
\* length of the payload that follows, and writes the next one only after it
\* has read one whole frame, 4 + n bytes; read_exact returns with exactly the
\* n bytes asked for or raises TimeoutError after an empty read past the
\* deadline; a header encoding 0 or more than 65536 ends the client with no
\* byte read after the header.
C20_ClientLockstep ==
   [][ /\ LET f == IF cpayload' = "ping" THEN LitPingFrame ELSE LitEchoFrame IN
             /\ Len(cout') = (ci' + Outstanding') * Len(f)
             /\ cout' # cout => (cpc = "send" /\ cout' = cout \o f)
             /\ BigEndian(SubSeq(f, 1, 4)) = Len(f) - 4
       /\ ci' <= ccount'
       /\ (cpc = "hdr" /\ cpc' \in {"body", "exit3"}) =>
             (Len(cbuf) = 4 /\ ctaken = 4 /\ cn' = BigEndian(cbuf))
       /\ (cpc = "body" /\ cpc' \in {"send", "OK"}) =>
             (Len(cbuf) = cn /\ ctaken = 4 + cn /\ ci' = ci + 1)
       /\ (cpc' = "TimeoutError" /\ cpc # cpc') =>
             (late /\ crx = <<>> /\ Len(cbuf) < cwant)
       /\ (cpc = "hdr" /\ cpc' = "body") => (0 < cn' /\ cn' <= 65536)
       /\ (cpc = "hdr" /\ cpc' = "exit3") => (cn' = 0 \/ cn' > 65536)
       /\ cpc = "exit3" => (cpc' = "exit3" /\ ctaken' = 4 /\ cout' = cout) ]_vars

C20_Witness ==
   /\ cpc = "exit3"
   /\ ccount = 2
   /\ ci = 1
   /\ creplies = <<"pong", "zero">>
   /\ cn = 0
   /\ crx = <<>>

====
